---- MODULE Spec2Model ----
(***************************************************************************)
(* CalBridge: CalendarEmailClient (client facade), sendApiEmail            *)
(* (dispatcher) and ResponseWatcher (response correlator) over a Gmail     *)
(* inbox used as a request/response bus.                                   *)
(*                                                                         *)
(* Strings are sequences of tokens.  Time is kept relative to the          *)
(* present: for each call the model stores Date.now() - start and          *)
(* Date.now() - startTime, which Tick advances; a difference stops         *)
(* growing at a cap above which the code can no longer tell values apart.  *)
(***************************************************************************)
EXTENDS Integers, Sequences, FiniteSets, TLC

(* ------------------------------ bounds -------------------------------- *)
NumCalls == 2          \* logical calls issued on the one client
MaxMsgs == 2           \* inbound messages that arrive in the inbox
MaxDuration == 2       \* cap of the durationMs measurement
MaxAuth == 1           \* authenticate() calls in flight at once
MaxEarlyReturns == 1   \* connect() calls observed on a connected client
MaxConnects == 2       \* connect() calls awaiting authenticate() when they may overlap
MaxPartLen == 3        \* tokens of a reply body before, and after, its first delimiter

(* config.pollIntervalMs and config.requestTimeoutMs, in abstract units *)
PollIntervalMs == 1
TimeoutMs == 1

Calls == 1..NumCalls

(* ------------------------------ strings ------------------------------- *)
IdToks == <<"1", "2", "3", "4", "5", "6">>

\* an identifier that is the same for every request
uuidv4Fixed(n) == <<"u", IdToks[1]>>

\* uuidv4(): the n-th identifier minted, two tokens long
uuidv4(n) == <<"u", IdToks[n]>>

\* String.prototype.includes over token sequences
includes(s, t) ==
  \E i \in 1..(Len(s) - Len(t) + 1) : SubSeq(s, i, i + Len(t) - 1) = t

\* indexOf / lastIndexOf of a single token; 0 stands for -1
indexOf(s, tok) ==
  IF \E i \in 1..Len(s) : s[i] = tok
  THEN CHOOSE i \in 1..Len(s) : s[i] = tok /\ \A j \in 1..(i - 1) : s[j] # tok
  ELSE 0

lastIndexOf(s, tok) ==
  IF \E i \in 1..Len(s) : s[i] = tok
  THEN CHOOSE i \in 1..Len(s) : s[i] = tok /\ \A j \in (i + 1)..Len(s) : s[j] # tok
  ELSE 0

(* ------------------------- public operations -------------------------- *)
Operations == {"listEvents", "createEvent", "updateEvent", "deleteEvent", "healthCheck"}

OpMethod(o) ==
  CASE o = "listEvents" -> "GET"
    [] o = "createEvent" -> "POST"
    [] o = "updateEvent" -> "PATCH"
    [] o = "deleteEvent" -> "DELETE"
    [] o = "healthCheck" -> "GET"

OpAction(o) ==
  CASE o = "listEvents" -> "list"
    [] o = "createEvent" -> "create"
    [] o = "updateEvent" -> "update"
    [] o = "deleteEvent" -> "event"
    [] o = "healthCheck" -> "health"

\* the allow-list with the health action enabled too
supportedActionsWithHealth == {"list", "health"}

supportedActions == {"list"}

\* subject of the outbound message
Subject(method, action, requestId) ==
  <<"#calendarapi", method, action, "[">> \o requestId \o <<"]">>

\* the argument object each public operation hands to sendRequest
Payload(o) ==
  CASE o = "listEvents" -> <<"start:s", "end:e">>
    [] o = "createEvent" -> <<"subject:t", "start:s", "end:e">>
    [] o = "updateEvent" -> <<"id:i", "subject:t">>
    [] o = "deleteEvent" -> <<"id:i">>
    [] o = "healthCheck" -> <<>>

\* JSON.stringify of an object given by its members
JSONStringify(members) == <<"{">> \o members \o <<"}">>

\* a body that carries the requestId as one more member
RequestBodyWithId(payload, requestId) == JSONStringify(payload \o requestId)

\* sendApiEmail: const body = JSON.stringify(payload)
RequestBody(payload, requestId) == JSONStringify(payload)

\* buildRawEmail: the headers that vary and the body
buildRawEmail(subject, body) == [subject |-> subject, body |-> body]

\* what sendApiEmail returns
SentEmailMetadata(requestId, messageId) == [requestId |-> requestId, messageId |-> messageId]

(* ------------------------------ decoding ------------------------------ *)
(* A body is a sequence of tokens: "{" and "}", the reply-quote delimiter  *)
(* line "D", a raw line break "nl", other text "x", and one token per      *)
(* member of a JSON object ("key:value").                                  *)
delimiter == "D"

FieldTokens ==
  {"status:success", "status:error", "status:weird", "events:[]",
   "durationMs:-5", "requestId:evil", "messageId:1", "messageId:2"}

FieldKey(tok) ==
  CASE tok \in {"status:success", "status:error", "status:weird"} -> "status"
    [] tok = "events:[]" -> "events"
    [] tok = "durationMs:-5" -> "durationMs"
    [] tok = "requestId:evil" -> "requestId"
    [] tok \in {"messageId:1", "messageId:2"} -> "messageId"

FieldVal(tok) ==
  CASE tok = "status:success" -> "success"
    [] tok = "status:error" -> "error"
    [] tok = "status:weird" -> "weird"
    [] tok = "events:[]" -> "[]"
    [] tok = "durationMs:-5" -> -5
    [] tok = "requestId:evil" -> <<"evil">>
    [] tok = "messageId:1" -> 1
    [] tok = "messageId:2" -> 2

EmptyObject == [k \in {} |-> 0]

\* the object a run of member tokens denotes; a repeated key keeps its last value
RECURSIVE ObjectOf(_)
ObjectOf(fields) ==
  IF fields = <<>> THEN EmptyObject
  ELSE LET n == Len(fields)
           k == FieldKey(fields[n])
       IN  [x \in {k} |-> FieldVal(fields[n])] @@ ObjectOf(SubSeq(fields, 1, n - 1))

\* body.replace(/\r/g, "\\r").replace(/\n/g, "\\n"): a line break becomes the
\* two characters backslash and n
RECURSIVE EscapeNewlines(_)
EscapeNewlines(body) ==
  IF body = <<>> THEN <<>>
  ELSE <<(IF Head(body) = "nl" THEN "\\n" ELSE Head(body))>> \o EscapeNewlines(Tail(body))

\* JSON.parse succeeds on "{" members "}" and throws on anything else
JsonParses(text) ==
  /\ Len(text) >= 2
  /\ text[1] = "{"
  /\ text[Len(text)] = "}"
  /\ \A i \in 2..(Len(text) - 1) : text[i] \in FieldTokens

JsonParse(text) == ObjectOf(SubSeq(text, 2, Len(text) - 1))

Null == [isNull |-> TRUE]

\* the decoder that does not cut the body at the delimiter
extractApiResponseKeepsQuote(body, requestId, messageId) ==
  LET escaped == EscapeNewlines(body)
      startIndex == indexOf(escaped, "{")
      endIndex == lastIndexOf(escaped, "}")
      potentialJson == SubSeq(escaped, startIndex, endIndex)
  IN  IF startIndex = 0 \/ endIndex = 0 \/ startIndex >= endIndex THEN Null
      ELSE IF JsonParses(potentialJson)
           THEN JsonParse(potentialJson) @@ [requestId |-> requestId, messageId |-> messageId]
           ELSE Null

\* the decoder that takes text without a JSON object for an empty object
extractApiResponseLenient(body, requestId, messageId) ==
  LET delimiterIndex == indexOf(body, delimiter)
      stripped == IF delimiterIndex # 0 THEN SubSeq(body, 1, delimiterIndex - 1) ELSE body
      escaped == EscapeNewlines(stripped)
      startIndex == indexOf(escaped, "{")
      endIndex == lastIndexOf(escaped, "}")
      potentialJson == SubSeq(escaped, startIndex, endIndex)
  IN  IF startIndex # 0 /\ endIndex # 0 /\ startIndex < endIndex /\ JsonParses(potentialJson)
      THEN JsonParse(potentialJson) @@ [requestId |-> requestId, messageId |-> messageId]
      ELSE [requestId |-> requestId, messageId |-> messageId]

\* the decoder that moves the members other than status under data
extractApiResponseWrapsPayload(body, requestId, messageId) ==
  LET delimiterIndex == indexOf(body, delimiter)
      stripped == IF delimiterIndex # 0 THEN SubSeq(body, 1, delimiterIndex - 1) ELSE body
      escaped == EscapeNewlines(stripped)
      startIndex == indexOf(escaped, "{")
      endIndex == lastIndexOf(escaped, "}")
      potentialJson == SubSeq(escaped, startIndex, endIndex)
      parsed == JsonParse(potentialJson)
      payload == [k \in DOMAIN parsed \ {"status"} |-> parsed[k]]
  IN  IF startIndex = 0 \/ endIndex = 0 \/ startIndex >= endIndex THEN Null
      ELSE IF JsonParses(potentialJson)
           THEN [k \in DOMAIN parsed \cap {"status"} |-> parsed[k]]
                  @@ [requestId |-> requestId, messageId |-> messageId, data |-> payload]
           ELSE Null

extractApiResponse(body, requestId, messageId) ==
  LET delimiterIndex == indexOf(body, delimiter)
      stripped == IF delimiterIndex # 0 THEN SubSeq(body, 1, delimiterIndex - 1) ELSE body
      escaped == EscapeNewlines(stripped)
      startIndex == indexOf(escaped, "{")
      endIndex == lastIndexOf(escaped, "}")
      potentialJson == SubSeq(escaped, startIndex, endIndex)
  IN  IF startIndex = 0 \/ endIndex = 0 \/ startIndex >= endIndex THEN Null
      ELSE IF JsonParses(potentialJson)
           THEN JsonParse(potentialJson) @@ [requestId |-> requestId, messageId |-> messageId]
           ELSE Null

(* ------------------------------- errors ------------------------------- *)
\* new CalendarApiError(message, code, requestId)
CalendarApiError(message, code, requestId) ==
  [message |-> message, code |-> code, requestId |-> requestId, isCalendarApiError |-> TRUE]

NoRequestId == <<>>

\* GmailAuth.authenticate: whatever fails is thrown as AUTH_FAILED
AuthFailedError ==
  CalendarApiError("Authentication failed", "AUTH_FAILED", NoRequestId)

NotConnectedError ==
  CalendarApiError("Client is not connected. Call connect() first.", "NOT_CONNECTED", NoRequestId)

\* the send error that does not say which request failed
SendFailedErrorNoId(requestId) ==
  CalendarApiError("Failed to send email", "SEND_FAILED", <<>>)

SendFailedError(requestId) ==
  CalendarApiError("Failed to send email", "SEND_FAILED", requestId)

TimeoutError(requestId) ==
  CalendarApiError("Request timed out", "TIMEOUT", requestId)

\* the wrapper without the instanceof test: the code of the error is lost
paramsErrorMessageNoCode(error) ==
  [status |-> "error",
   requestId |-> <<>>,
   error |-> error.message,
   data |-> [code |-> "UNKNOWN"]]

paramsErrorMessage(error) ==
  [status |-> "error",
   requestId |-> <<>>,
   error |-> error.message,
   data |-> [code |-> IF error.isCalendarApiError THEN error.code ELSE "UNKNOWN"]]

SkippedResponse ==
  [status |-> "skipped",
   requestId |-> <<"no-op">>,
   data |-> [message |-> "Not implemented in backend yet."]]

\* executeApiCall: what the public operation hands to its caller, given the
\* outcome of sendRequest and Date.now() - start
returned(response) == [kind |-> "returned", response |-> response]
raised(error) == [kind |-> "raised", error |-> error]

\* the wrapper without its catch: an error of sendRequest reaches the caller
executeApiCallRethrows(outcome, sinceStartMs) ==
  IF outcome.kind = "returned"
  THEN returned([durationMs |-> sinceStartMs] @@ outcome.response)
  ELSE outcome

\* the wrapper that keeps a durationMs the response already carries
executeApiCallKeepsDuration(outcome, sinceStartMs) ==
  IF outcome.kind = "returned"
  THEN returned(outcome.response @@ [durationMs |-> sinceStartMs])
  ELSE returned([durationMs |-> sinceStartMs] @@ paramsErrorMessage(outcome.error))

executeApiCall(outcome, sinceStartMs) ==
  IF outcome.kind = "returned"
  THEN returned([durationMs |-> sinceStartMs] @@ outcome.response)
  ELSE returned([durationMs |-> sinceStartMs] @@ paramsErrorMessage(outcome.error))

\* the connection check that looks at the handle only
ensureConnectedHandleOnly(isConnected, handle) == handle # "null"

ensureConnected(isConnected, handle) == isConnected /\ handle # "null"

(* --------------------------- configuration ---------------------------- *)
\* JavaScript values of a configuration member
Absent == [t |-> "absent"]
Undefined == [t |-> "undefined"]
NaN == [t |-> "NaN"]
Num(n) == [t |-> "number", v |-> n]
Str(x) == [t |-> "string", v |-> x]

DefaultPollIntervalMs == 3000
DefaultRequestTimeoutMs == 180000
MinPollIntervalMs == 500
MinRequestTimeoutMs == 5000
WatcherPollIntervalMs == 2000
WatcherTimeoutMs == 30000

DEFAULT_CONFIG ==
  [senderEmail |-> Str("sender"),
   recipientEmail |-> Str("recipient"),
   credentialsPath |-> Str("credentials.json"),
   pollIntervalMs |-> Num(DefaultPollIntervalMs),
   requestTimeoutMs |-> Num(DefaultRequestTimeoutMs)]

\* { ...DEFAULT_CONFIG, ...partial }: a member partial has replaces the default,
\* an undefined one too
Spread(defaults, over) ==
  [k \in DOMAIN defaults |-> IF over[k].t = "absent" THEN defaults[k] ELSE over[k]]

\* !value
Not(value) ==
  \/ value.t \in {"undefined", "NaN"}
  \/ value.t = "string" /\ value.v = ""
  \/ value.t = "number" /\ value.v = 0

\* value < bound: false when value is NaN or undefined
LessThan(value, bound) == value.t = "number" /\ value.v < bound

resolveConfig(over) ==
  LET merged == Spread(DEFAULT_CONFIG, over)
  IN  IF Not(merged.senderEmail) THEN raised("Config: senderEmail is required")
      ELSE IF Not(merged.recipientEmail) THEN raised("Config: recipientEmail is required")
      ELSE IF Not(merged.credentialsPath) THEN raised("Config: credentialsPath is required")
      ELSE IF LessThan(merged.pollIntervalMs, MinPollIntervalMs)
           THEN raised("Config: pollIntervalMs must be at least 500ms")
      ELSE IF LessThan(merged.requestTimeoutMs, MinRequestTimeoutMs)
           THEN raised("Config: requestTimeoutMs must be at least 5000ms")
      ELSE returned(merged)

\* a constructor parameter with a default: the default stands in for undefined
ParameterDefault(value, default) == IF value.t = "undefined" THEN Num(default) ELSE value

\* the delay setTimeout(callback, ms) uses: 1 when ms is below 1 or not a number
setTimeoutDelay(ms) == IF ms.t = "number" /\ ms.v >= 1 THEN ms.v ELSE 1

NoPartial ==
  [senderEmail |-> Absent, recipientEmail |-> Absent, credentialsPath |-> Absent,
   pollIntervalMs |-> Absent, requestTimeoutMs |-> Absent]

Unset == [kind |-> "unset"]
NoWatcher == [kind |-> "none"]

\* the numbers around a minimum, and what else a caller can pass for a number
NumberInputs(minimum) ==
  {Absent, Undefined, NaN} \cup {Num(n) : n \in {0 - 1, 0, minimum - 1, minimum, minimum + 1}}

StringInputs == {Absent, Str("")}

Partials ==
  [senderEmail : StringInputs, recipientEmail : StringInputs, credentialsPath : StringInputs,
   pollIntervalMs : NumberInputs(MinPollIntervalMs),
   requestTimeoutMs : NumberInputs(MinRequestTimeoutMs)]

(* ------------------------------- state -------------------------------- *)
VARIABLES
  connected,            \* CalendarEmailClient.connected
  gmail,                \* CalendarEmailClient.gmail: "null" or the handle
  authInFlight,         \* auth.authenticate() calls awaited by connect()
  connectOutcome,       \* how the connect() call that settled last ended
  inbox,                \* inbound messages, inbox[id] = [subject, body]
  unread,               \* ids carrying the UNREAD label
  trashed,              \* ids carrying the TRASH label
  minted,               \* number of uuidv4() identifiers minted
  pc,                   \* where each call is suspended
  op,                   \* the public operation of each call
  requestId,            \* sentMeta.requestId / ResponseWatcher.requestId
  result,               \* what the public operation handed to its caller
  processedMessageIds,  \* ResponseWatcher.processedMessageIds
  messages,             \* candidates of the running poll() not yet visited
  current,              \* msg.id being fetched or marked read
  pending,              \* apiResponse held while markAsRead is awaited
  sinceStart,           \* Date.now() - start (executeApiCall)
  sinceStartTime,       \* Date.now() - this.startTime (ResponseWatcher)
  timer,                \* time left on setTimeout(check, pollIntervalMs)
  cleanup,              \* the cleanupMessages task of each call
  transportOps,         \* observation: kinds of transport operation issued
  fetches,              \* observation: messages.get count per call and id
  skips,                \* observation: ids poll() passed over as already processed
  listed,               \* observation: listResponse.data.messages of the latest poll()
  markedRead,           \* observation: ids the call issued markAsRead for
  matchedFrom,          \* observation: msg.id the returned response was built from
  settled,              \* observation: times waitForResponse settled
  timedOutAt,           \* observation: Date.now() - startTime at the Timeout
  wasConnected,         \* observation: connected when the operation was invoked
  earlyReturns,         \* observation: connect() calls that returned at the connected test
  outbox,               \* observation: subject and body handed to messages.send
  sentMeta,             \* observation: how sendApiEmail ended for each call
  listQueries,          \* observation: messages.list queries of the wait in progress
  partial,              \* the argument of the CalendarEmailClient constructor
  config,               \* CalendarEmailClient.config, or the error of the constructor
  watcherConfig         \* pollIntervalMs and timeoutMs of the ResponseWatcher of a request

clientVars == <<connected, gmail, authInFlight, connectOutcome>>
mailVars == <<inbox, unread, trashed>>
callVars == <<pc, op, requestId, result, minted>>
watcherVars == <<processedMessageIds, messages, current, pending>>
clockVars == <<sinceStart, sinceStartTime, timer>>
obsVars == <<transportOps, fetches, skips, listed, markedRead, matchedFrom, settled,
             timedOutAt, wasConnected, earlyReturns, outbox, sentMeta,
             listQueries>>
configVars == <<partial, config, watcherConfig>>
vars == <<clientVars, mailVars, callVars, watcherVars, clockVars, cleanup, obsVars, configVars>>

NoResult == [kind |-> "none"]
\* a promise of void that resolved
Resolved == [kind |-> "resolved"]
NoEmail == [subject |-> <<>>, body |-> <<>>]
NoCleanup == [state |-> "none", ids |-> <<>>]
NoMsg == 0
NotYet == -1

\* transport id of the outbound message of call c
SentMessageId(c) == MaxMsgs + c

\* subject of a reply to the n-th minted request
ReplySubject(n) == <<"Re:", "[">> \o uuidv4(n) \o <<"]">>

SubjectCatalog == {ReplySubject(n) : n \in Calls}

BodyCatalog ==
  {<<"x", "{", "status:success", "events:[]", "durationMs:-5", "}", "D", "{", "}">>,
   <<"x", "}", "{">>}

\* replies a single call is checked against: a reply to it and a reply to
\* another request; the bodies above and an object that has no status member
\* and has requestId and messageId members of its own
SoloSubjectCatalog == {ReplySubject(1), ReplySubject(NumCalls)}

ReplyBodyCatalog ==
  BodyCatalog \cup {<<"{", "requestId:evil", "messageId:1", "}">>}

Init ==
  /\ connected = FALSE
  /\ gmail = "null"
  /\ authInFlight = 0
  /\ connectOutcome = NoResult
  /\ inbox = <<>>
  /\ unread = {}
  /\ trashed = {}
  /\ minted = 0
  /\ pc = [c \in Calls |-> "idle"]
  /\ op = [c \in Calls |-> "none"]
  /\ requestId = [c \in Calls |-> NoRequestId]
  /\ result = [c \in Calls |-> NoResult]
  /\ processedMessageIds = [c \in Calls |-> {}]
  /\ messages = [c \in Calls |-> <<>>]
  /\ current = [c \in Calls |-> NoMsg]
  /\ pending = [c \in Calls |-> Null]
  /\ sinceStart = [c \in Calls |-> 0]
  /\ sinceStartTime = [c \in Calls |-> 0]
  /\ timer = [c \in Calls |-> 0]
  /\ cleanup = [c \in Calls |-> NoCleanup]
  /\ transportOps = [c \in Calls |-> {}]
  /\ fetches = [c \in Calls |-> [m \in {} |-> 0]]
  /\ skips = [c \in Calls |-> {}]
  /\ listed = [c \in Calls |-> <<>>]
  /\ markedRead = [c \in Calls |-> {}]
  /\ matchedFrom = [c \in Calls |-> NoMsg]
  /\ settled = [c \in Calls |-> 0]
  /\ timedOutAt = [c \in Calls |-> NotYet]
  /\ wasConnected = [c \in Calls |-> FALSE]
  /\ earlyReturns = 0
  /\ outbox = [c \in Calls |-> NoEmail]
  /\ sentMeta = [c \in Calls |-> NoResult]
  /\ listQueries = [c \in Calls |-> 0]
  /\ partial = NoPartial
  /\ config = resolveConfig(NoPartial)
  /\ watcherConfig = NoWatcher

(* ------------------------- connection lifecycle ----------------------- *)
\* connect(): past the connected check, awaiting auth.authenticate()
Connect ==
  /\ ~connected
  /\ authInFlight < MaxAuth
  /\ authInFlight' = authInFlight + 1
  /\ UNCHANGED <<configVars, connected, gmail, connectOutcome, mailVars, callVars, watcherVars,
                 clockVars, cleanup, obsVars>>

\* connect() called while an earlier connect() still awaits authenticate():
\* connected is false, so this call goes past the connected test as well
ConnectDuringConnect ==
  /\ ~connected
  /\ authInFlight >= 1
  /\ authInFlight < MaxConnects
  /\ authInFlight' = authInFlight + 1
  /\ UNCHANGED <<configVars, connected, gmail, connectOutcome, mailVars, callVars, watcherVars,
                 clockVars, cleanup, obsVars>>

\* connect() on a connected client that authenticates again
ConnectWhileConnectedReauthenticates ==
  /\ connected
  /\ earlyReturns < MaxEarlyReturns
  /\ earlyReturns' = earlyReturns + 1
  /\ authInFlight' = authInFlight + 1
  /\ UNCHANGED <<configVars, connected, gmail, connectOutcome, mailVars, callVars, watcherVars,
                 clockVars, cleanup,
                 transportOps, fetches, skips, listed, markedRead, matchedFrom, settled,
                 timedOutAt, wasConnected, outbox, sentMeta, listQueries>>

\* connect() on a connected client: returns at `if (this.connected) return`
ConnectWhileConnected ==
  /\ connected
  /\ earlyReturns < MaxEarlyReturns
  /\ earlyReturns' = earlyReturns + 1
  /\ connectOutcome' = Resolved
  /\ UNCHANGED <<configVars, connected, gmail, authInFlight, mailVars, callVars, watcherVars,
                 clockVars, cleanup,
                 transportOps, fetches, skips, listed, markedRead, matchedFrom, settled,
                 timedOutAt, wasConnected, outbox, sentMeta, listQueries>>

\* a connect() that sets connected and stores no handle
AuthenticateOkNoHandle ==
  /\ authInFlight > 0
  /\ authInFlight' = authInFlight - 1
  /\ connected' = TRUE
  /\ connectOutcome' = Resolved
  /\ UNCHANGED <<configVars, gmail, mailVars, callVars, watcherVars, clockVars, cleanup, obsVars>>

\* authenticate() resolves: the handle is stored, then connected is set
AuthenticateOk ==
  /\ authInFlight > 0
  /\ authInFlight' = authInFlight - 1
  /\ gmail' = "gmail"
  /\ connected' = TRUE
  /\ connectOutcome' = Resolved
  /\ UNCHANGED <<configVars, mailVars, callVars, watcherVars, clockVars, cleanup, obsVars>>

\* a connect() that reports the failure and marks the client connected all the same
AuthenticateFailConnects ==
  /\ authInFlight > 0
  /\ authInFlight' = authInFlight - 1
  /\ connectOutcome' = raised(AuthFailedError)
  /\ connected' = TRUE
  /\ UNCHANGED <<configVars, gmail, mailVars, callVars, watcherVars,
                 clockVars, cleanup, obsVars>>

\* authenticate() rejects: connect() rethrows, nothing is assigned
AuthenticateFail ==
  /\ authInFlight > 0
  /\ authInFlight' = authInFlight - 1
  /\ connectOutcome' = raised(AuthFailedError)
  /\ UNCHANGED <<configVars, connected, gmail, mailVars, callVars, watcherVars,
                 clockVars, cleanup, obsVars>>

\* a disconnect that cancels the calls in flight
DisconnectCancels ==
  /\ connected
  /\ connected' = FALSE
  /\ pc' = [c \in Calls |->
        IF pc[c] \in {"listing", "fetching", "marking", "sleeping"} THEN "stopped" ELSE pc[c]]
  /\ UNCHANGED <<configVars, gmail, authInFlight, connectOutcome, mailVars, op, requestId, result, minted, watcherVars,
                 clockVars, cleanup, obsVars>>

Disconnect ==
  /\ connected
  /\ connected' = FALSE
  /\ UNCHANGED <<configVars, gmail, authInFlight, connectOutcome, mailVars, callVars, watcherVars, clockVars, cleanup, obsVars>>

(* ----------------------------- environment ---------------------------- *)
\* a message from responseSenderEmail arrives, unread
Deliver(subject, body) ==
  /\ Len(inbox) < MaxMsgs
  /\ inbox' = Append(inbox, [subject |-> subject, body |-> body])
  /\ unread' = unread \cup {Len(inbox) + 1}
  /\ UNCHANGED <<configVars, trashed, clientVars, callVars, watcherVars, clockVars, cleanup, obsVars>>

(* --------------------------- response watcher ------------------------- *)
\* the deadline test with >= in place of >
TimedOutEarly(elapsed, timeoutMs) == elapsed >= timeoutMs

\* check() without a deadline
TimedOutNever(elapsed, timeoutMs) == FALSE

\* check(): Date.now() - this.startTime > this.timeoutMs
TimedOut(elapsed, timeoutMs) == elapsed > timeoutMs

\* check() with the else dropped: a timer is set after a response too
CheckContinuationAlsoReschedules(outcome) ==
  CASE outcome = "response" -> {"resolve", "setTimeout"}
    [] outcome = "null" -> {"setTimeout"}
    [] outcome = "error" -> {"setTimeout"}

\* check() whose catch block sets no timer
CheckContinuationDropsError(outcome) ==
  CASE outcome = "response" -> {"resolve"}
    [] outcome = "null" -> {"setTimeout"}
    [] outcome = "error" -> {}

\* check(): what follows a poll() that returned a response, returned null
\* or threw
CheckContinuation(outcome) ==
  CASE outcome = "response" -> {"resolve"}
    [] outcome = "null" -> {"setTimeout"}
    [] outcome = "error" -> {"setTimeout"}

\* poll() without the processed-id test
AlreadyProcessedNever(processed, id) == FALSE

\* poll(): this.processedMessageIds.has(msg.id)
AlreadyProcessed(processed, id) == id \in processed

\* poll() without the subject test
SubjectMatchesAny(subject, rid) == TRUE

\* poll(): email.subject.includes(this.requestId)
SubjectMatches(subject, rid) == includes(subject, rid)

\* the candidates left once the already processed ones at the front are skipped
RECURSIVE SkipProcessed(_, _)
SkipProcessed(q, processed) ==
  IF q = <<>> THEN <<>>
  ELSE IF AlreadyProcessed(processed, Head(q)) THEN SkipProcessed(Tail(q), processed)
  ELSE q

\* messages.list: unread, not in the trash, newest first
RECURSIVE Descending(_)
Descending(ids) ==
  IF ids = {} THEN <<>>
  ELSE LET m == CHOOSE x \in ids : \A y \in ids : y <= x
       IN  <<m>> \o Descending(ids \ {m})

ListUnread == Descending({m \in DOMAIN inbox : m \in unread /\ m \notin trashed})

Truthy(messageId) == messageId # 0

\* the id list without the id of the reply
messagesToDeleteSentOnly(c, response) == <<SentMessageId(c)>>

\* sendRequest after waitForResponse: [sentMeta.messageId] + response.messageId
messagesToDelete(c, response) ==
  <<SentMessageId(c)>> \o
    (IF "messageId" \in DOMAIN response /\ Truthy(response.messageId)
     THEN <<response.messageId>> ELSE <<>>)

\* the promise of waitForResponse settles once; a later resolve or reject is ignored
SettleResult(c, outcome) ==
  IF result[c] = NoResult THEN executeApiCall(outcome, sinceStart[c]) ELSE result[c]

\* position of the watcher after one poll cycle
PcAfter(c, outcome) ==
  IF "setTimeout" \in CheckContinuation(outcome) THEN "sleeping"
  ELSE IF "resolve" \in CheckContinuation(outcome) THEN "done"
  ELSE "stopped"

\* a check() that calls itself again at once in place of setting the timer
PollEndsEmptyNoDelay(c, outcome) ==
  /\ pc' = [pc EXCEPT ![c] = PcAfter(c, outcome)]
  /\ timer' = [timer EXCEPT ![c] = 0]
  /\ messages' = [messages EXCEPT ![c] = <<>>]
  /\ current' = [current EXCEPT ![c] = NoMsg]
  /\ UNCHANGED <<processedMessageIds, pending, transportOps, fetches, markedRead>>

\* poll() returned null or threw: check() goes on without a response
PollEndsEmpty(c, outcome) ==
  /\ pc' = [pc EXCEPT ![c] = PcAfter(c, outcome)]
  /\ timer' = [timer EXCEPT ![c] = PollIntervalMs]
  /\ messages' = [messages EXCEPT ![c] = <<>>]
  /\ current' = [current EXCEPT ![c] = NoMsg]
  /\ UNCHANGED <<processedMessageIds, pending, transportOps, fetches, markedRead>>

\* the for loop of poll() goes on over the candidates q
ContinuePoll(c, q) ==
  LET rest == SkipProcessed(q, processedMessageIds[c])
      passed == {q[i] : i \in 1..(Len(q) - Len(rest))}
  IN  /\ skips' = [skips EXCEPT ![c] = @ \cup passed]
      /\ IF rest = <<>>
         THEN PollEndsEmpty(c, "null")
         ELSE LET m == Head(rest)
              IN  /\ processedMessageIds' = [processedMessageIds EXCEPT ![c] = @ \cup {m}]
                  /\ current' = [current EXCEPT ![c] = m]
                  /\ messages' = [messages EXCEPT ![c] = Tail(rest)]
                  /\ pc' = [pc EXCEPT ![c] = "fetching"]
                  /\ transportOps' = [transportOps EXCEPT ![c] = @ \cup {"get"}]
                  /\ fetches' = [fetches EXCEPT ![c] =
                        IF m \in DOMAIN @ THEN [@ EXCEPT ![m] = @ + 1]
                        ELSE [x \in {m} |-> 1] @@ @]
                  /\ UNCHANGED <<pending, timer, markedRead>>

\* messages.list returns (ok) or throws
ListReturn(c, ok) ==
  /\ pc[c] = "listing"
  /\ listed' = [listed EXCEPT ![c] = IF ok THEN ListUnread ELSE <<>>]
  /\ IF ok THEN ContinuePoll(c, ListUnread)
     ELSE PollEndsEmpty(c, "error") /\ UNCHANGED skips
  /\ UNCHANGED <<configVars, clientVars, mailVars, op, requestId, result, minted, sinceStart,
                 sinceStartTime, cleanup, matchedFrom, settled, timedOutAt, wasConnected,
                 earlyReturns, outbox, sentMeta, listQueries>>

\* a poll that gives up the cycle at the first candidate it cannot use
GetReturnEndsCycle(c, ok) ==
  /\ pc[c] = "fetching"
  /\ LET m == current[c]
         email == inbox[m]
         apiResponse == extractApiResponse(email.body, requestId[c], m)
     IN  IF ok /\ SubjectMatches(email.subject, requestId[c]) /\ apiResponse # Null
         THEN /\ pending' = [pending EXCEPT ![c] = apiResponse]
              /\ pc' = [pc EXCEPT ![c] = "marking"]
              /\ transportOps' = [transportOps EXCEPT ![c] = @ \cup {"modify"}]
              /\ markedRead' = [markedRead EXCEPT ![c] = @ \cup {m}]
              /\ UNCHANGED <<processedMessageIds, messages, current, timer, fetches, skips>>
         ELSE PollEndsEmpty(c, "null") /\ UNCHANGED skips
  /\ UNCHANGED <<configVars, clientVars, mailVars, op, requestId, result, minted, sinceStart,
                 sinceStartTime, cleanup, listed, matchedFrom, settled, timedOutAt,
                 wasConnected,
                 earlyReturns, outbox, sentMeta, listQueries>>

\* messages.get returns (ok) or throws inside fetchAndParseMessage
GetReturn(c, ok) ==
  /\ pc[c] = "fetching"
  /\ LET m == current[c]
         email == inbox[m]
         apiResponse == extractApiResponse(email.body, requestId[c], m)
     IN  IF ok /\ SubjectMatches(email.subject, requestId[c]) /\ apiResponse # Null
         THEN /\ pending' = [pending EXCEPT ![c] = apiResponse]
              /\ pc' = [pc EXCEPT ![c] = "marking"]
              /\ transportOps' = [transportOps EXCEPT ![c] = @ \cup {"modify"}]
              /\ markedRead' = [markedRead EXCEPT ![c] = @ \cup {m}]
              /\ UNCHANGED <<processedMessageIds, messages, current, timer, fetches, skips>>
         ELSE ContinuePoll(c, messages[c])
  /\ UNCHANGED <<configVars, clientVars, mailVars, op, requestId, result, minted, sinceStart,
                 sinceStartTime, cleanup, listed, matchedFrom, settled, timedOutAt,
                 wasConnected,
                 earlyReturns, outbox, sentMeta, listQueries>>

\* a poll() in which a failed markAsRead rejects the wait
ModifyReturnFailureRejects(c, ok) ==
  /\ pc[c] = "marking"
  /\ unread' = IF ok THEN unread \ {current[c]} ELSE unread
  /\ settled' = [settled EXCEPT ![c] = @ + 1]
  /\ matchedFrom' = [matchedFrom EXCEPT ![c] = current[c]]
  /\ result' = [result EXCEPT ![c] = SettleResult(c,
        IF ok THEN returned(pending[c])
        ELSE raised(CalendarApiError("modify failed", "UNKNOWN", requestId[c])))]
  /\ cleanup' = [cleanup EXCEPT ![c] =
        IF result[c] = NoResult /\ gmail # "null"
        THEN [state |-> "pending", ids |-> messagesToDelete(c, pending[c])] ELSE @]
  /\ transportOps' = [transportOps EXCEPT ![c] =
        IF result[c] = NoResult /\ gmail # "null" THEN @ \cup {"batchModify"} ELSE @]
  /\ pc' = [pc EXCEPT ![c] = PcAfter(c, "response")]
  /\ timer' = [timer EXCEPT ![c] = IF PcAfter(c, "response") = "sleeping" THEN PollIntervalMs ELSE 0]
  /\ pending' = [pending EXCEPT ![c] = Null]
  /\ current' = [current EXCEPT ![c] = NoMsg]
  /\ messages' = [messages EXCEPT ![c] = <<>>]
  /\ sinceStartTime' = [sinceStartTime EXCEPT ![c] = IF pc'[c] = "done" THEN 0 ELSE @]
  /\ listQueries' = [listQueries EXCEPT ![c] = IF pc'[c] = "done" THEN 0 ELSE @]
  /\ UNCHANGED <<configVars, clientVars, inbox, trashed, op, requestId, minted, processedMessageIds,
                 sinceStart, fetches, skips, listed, markedRead, timedOutAt, wasConnected,
                 earlyReturns, outbox, sentMeta>>

\* messages.modify returns (ok) or throws inside markAsRead; poll() returns the
\* response, check() resolves, sendRequest starts the cleanup and returns
ModifyReturn(c, ok) ==
  /\ pc[c] = "marking"
  /\ unread' = IF ok THEN unread \ {current[c]} ELSE unread
  /\ settled' = [settled EXCEPT ![c] = @ + 1]
  /\ matchedFrom' = [matchedFrom EXCEPT ![c] = current[c]]
  /\ result' = [result EXCEPT ![c] = SettleResult(c, returned(pending[c]))]
  /\ cleanup' = [cleanup EXCEPT ![c] =
        IF result[c] = NoResult /\ gmail # "null"
        THEN [state |-> "pending", ids |-> messagesToDelete(c, pending[c])] ELSE @]
  /\ transportOps' = [transportOps EXCEPT ![c] =
        IF result[c] = NoResult /\ gmail # "null" THEN @ \cup {"batchModify"} ELSE @]
  /\ pc' = [pc EXCEPT ![c] = PcAfter(c, "response")]
  /\ timer' = [timer EXCEPT ![c] = IF PcAfter(c, "response") = "sleeping" THEN PollIntervalMs ELSE 0]
  /\ pending' = [pending EXCEPT ![c] = Null]
  /\ current' = [current EXCEPT ![c] = NoMsg]
  /\ messages' = [messages EXCEPT ![c] = <<>>]
  /\ sinceStartTime' = [sinceStartTime EXCEPT ![c] = IF pc'[c] = "done" THEN 0 ELSE @]
  /\ listQueries' = [listQueries EXCEPT ![c] = IF pc'[c] = "done" THEN 0 ELSE @]
  /\ UNCHANGED <<configVars, clientVars, inbox, trashed, op, requestId, minted, processedMessageIds,
                 sinceStart, fetches, skips, listed, markedRead, timedOutAt, wasConnected,
                 earlyReturns, outbox, sentMeta>>

\* check(): reject with Timeout past the deadline, else run poll()
Check(c, elapsed) ==
  IF TimedOut(elapsed, TimeoutMs)
  THEN /\ settled' = [settled EXCEPT ![c] = @ + 1]
       /\ timedOutAt' = [timedOutAt EXCEPT ![c] = elapsed]
       /\ result' = [result EXCEPT ![c] = SettleResult(c, raised(TimeoutError(requestId[c])))]
       /\ pc' = [pc EXCEPT ![c] = "done"]
       /\ sinceStartTime' = [sinceStartTime EXCEPT ![c] = 0]
       /\ listQueries' = [listQueries EXCEPT ![c] = 0]
       /\ UNCHANGED <<transportOps, sinceStart>>
  ELSE /\ pc' = [pc EXCEPT ![c] = "listing"]
       /\ transportOps' = [transportOps EXCEPT ![c] = @ \cup {"list"}]
       /\ sinceStartTime' = [sinceStartTime EXCEPT ![c] = elapsed]
       /\ listQueries' = [listQueries EXCEPT ![c] = @ + 1]
       /\ UNCHANGED <<settled, timedOutAt, result, sinceStart>>

\* the timer set by setTimeout(check, pollIntervalMs) fires
TimerFire(c) ==
  /\ pc[c] = "sleeping"
  /\ timer[c] = 0
  /\ Check(c, sinceStartTime[c])
  /\ UNCHANGED <<configVars, clientVars, mailVars, op, requestId, minted, watcherVars, timer, cleanup,
                 fetches, skips, listed, markedRead, matchedFrom, wasConnected,
                 earlyReturns, outbox, sentMeta>>

(* ---------------------------- client facade --------------------------- *)
\* a public operation is invoked: executeApiCall takes the start time and
\* sendRequest runs up to its first await
Invoke(c, o) ==
  /\ pc[c] = "idle"
  /\ \A d \in Calls : d < c => pc[d] # "idle"
  /\ op' = [op EXCEPT ![c] = o]
  /\ wasConnected' = [wasConnected EXCEPT ![c] = connected]
  /\ IF OpAction(o) \notin supportedActions
     THEN /\ result' = [result EXCEPT ![c] = executeApiCall(returned(SkippedResponse), 0)]
          /\ pc' = [pc EXCEPT ![c] = "done"]
          /\ UNCHANGED <<requestId, minted, transportOps, outbox>>
     ELSE IF ~ensureConnected(connected, gmail)
     THEN /\ result' = [result EXCEPT ![c] = executeApiCall(raised(NotConnectedError), 0)]
          /\ pc' = [pc EXCEPT ![c] = "done"]
          /\ UNCHANGED <<requestId, minted, transportOps, outbox>>
     ELSE /\ requestId' = [requestId EXCEPT ![c] = uuidv4(minted + 1)]
          /\ minted' = minted + 1
          /\ pc' = [pc EXCEPT ![c] = "sending"]
          /\ transportOps' = [transportOps EXCEPT ![c] = @ \cup {"send"}]
          /\ outbox' = [outbox EXCEPT ![c] =
                buildRawEmail(Subject(OpMethod(o), OpAction(o), uuidv4(minted + 1)),
                              RequestBody(Payload(o), uuidv4(minted + 1)))]
          /\ UNCHANGED result
  /\ UNCHANGED <<configVars, clientVars, mailVars, watcherVars, clockVars, cleanup, fetches, skips,
                 listed, markedRead, matchedFrom, settled, timedOutAt,
                 earlyReturns, sentMeta, listQueries>>

\* messages.send resolves: the watcher is constructed and check() runs at once
SendOk(c) ==
  /\ pc[c] = "sending"
  /\ sentMeta' = [sentMeta EXCEPT ![c] =
        returned(SentEmailMetadata(requestId[c], SentMessageId(c)))]
  /\ Check(c, 0)
  /\ UNCHANGED <<configVars, clientVars, mailVars, op, requestId, minted, watcherVars, timer, cleanup,
                 fetches, skips, listed, markedRead, matchedFrom, wasConnected,
                 earlyReturns, outbox>>

\* a failed send after which the watcher is started all the same
SendFailThenPolls(c) ==
  /\ pc[c] = "sending"
  /\ sentMeta' = [sentMeta EXCEPT ![c] = raised(SendFailedError(requestId[c]))]
  /\ Check(c, 0)
  /\ UNCHANGED <<configVars, clientVars, mailVars, op, requestId, minted, watcherVars, timer, cleanup,
                 fetches, skips, listed, markedRead, matchedFrom, wasConnected,
                 earlyReturns, outbox>>

\* messages.send rejects: sendApiEmail throws SEND_FAILED
SendFail(c) ==
  /\ pc[c] = "sending"
  /\ sentMeta' = [sentMeta EXCEPT ![c] = raised(SendFailedError(requestId[c]))]
  /\ result' = [result EXCEPT ![c] = executeApiCall(sentMeta'[c], sinceStart[c])]
  /\ pc' = [pc EXCEPT ![c] = "done"]
  /\ UNCHANGED <<configVars, clientVars, mailVars, op, requestId, minted, watcherVars, clockVars,
                 cleanup, transportOps, fetches, skips, listed, markedRead, matchedFrom,
                 settled, timedOutAt, wasConnected, earlyReturns, outbox, listQueries>>

\* a cleanup whose failure replaces the result of the call by an error
BatchModifyReturnRaises(c, ok) ==
  /\ cleanup[c].state = "pending"
  /\ cleanup' = [cleanup EXCEPT ![c].state = IF ok THEN "trashed" ELSE "failed"]
  /\ trashed' = IF ok
                THEN trashed \cup {cleanup[c].ids[i] : i \in DOMAIN cleanup[c].ids}
                ELSE trashed
  /\ result' = [result EXCEPT ![c] =
        IF ok THEN @
        ELSE executeApiCall(raised(CalendarApiError("batchModify failed", "UNKNOWN", NoRequestId)),
                            sinceStart[c])]
  /\ UNCHANGED <<configVars, clientVars, inbox, unread, pc, op, requestId, minted, watcherVars, clockVars,
                 obsVars>>

\* cleanupMessages: messages.batchModify returns (ok) or throws; both end the task
BatchModifyReturn(c, ok) ==
  /\ cleanup[c].state = "pending"
  /\ cleanup' = [cleanup EXCEPT ![c].state = IF ok THEN "trashed" ELSE "failed"]
  /\ trashed' = IF ok
                THEN trashed \cup {cleanup[c].ids[i] : i \in DOMAIN cleanup[c].ids}
                ELSE trashed
  /\ UNCHANGED <<configVars, clientVars, inbox, unread, callVars, watcherVars, clockVars, obsVars>>

(* -------------------------------- time -------------------------------- *)
Watching(c) == pc[c] \in {"listing", "fetching", "marking", "sleeping"}

Tick ==
  /\ sinceStart' = [c \in Calls |->
        IF (pc[c] = "sending" \/ Watching(c)) /\ sinceStart[c] < MaxDuration
        THEN sinceStart[c] + 1
        ELSE sinceStart[c]]
  /\ sinceStartTime' = [c \in Calls |->
        IF Watching(c) /\ sinceStartTime[c] <= TimeoutMs THEN sinceStartTime[c] + 1
        ELSE sinceStartTime[c]]
  /\ timer' = [c \in Calls |->
        IF pc[c] = "sleeping" /\ timer[c] > 0 THEN timer[c] - 1 ELSE timer[c]]
  /\ <<sinceStart', sinceStartTime', timer'>> # <<sinceStart, sinceStartTime, timer>>
  /\ UNCHANGED <<configVars, clientVars, mailVars, callVars, watcherVars, cleanup, obsVars>>

(* ---------------------------- specification --------------------------- *)
CallStep(c) ==
  \/ SendOk(c)
  \/ SendFail(c)
  \/ \E ok \in BOOLEAN : ListReturn(c, ok)
  \/ \E ok \in BOOLEAN : GetReturn(c, ok)
  \/ \E ok \in BOOLEAN : ModifyReturn(c, ok)
  \/ TimerFire(c)

Next ==
  \/ Connect
  \/ AuthenticateOk
  \/ AuthenticateFail
  \/ Disconnect
  \/ \E subject \in SubjectCatalog, body \in BodyCatalog : Deliver(subject, body)
  \/ \E c \in Calls, o \in Operations : Invoke(c, o)
  \/ \E c \in Calls : CallStep(c)
  \/ \E c \in Calls, ok \in BOOLEAN : BatchModifyReturn(c, ok)
  \/ Tick

Spec == Init /\ [][Next]_vars

\* the same client with a single logical call issued on it
SoloNext ==
  \/ Connect
  \/ AuthenticateOk
  \/ AuthenticateFail
  \/ Disconnect
  \/ \E subject \in SoloSubjectCatalog, body \in ReplyBodyCatalog : Deliver(subject, body)
  \/ \E o \in Operations : Invoke(1, o)
  \/ CallStep(1)
  \/ \E ok \in BOOLEAN : BatchModifyReturn(1, ok)
  \/ Tick

SoloSpec == Init /\ [][SoloNext]_vars

\* every awaited transport call returns or fails, timers fire, time advances
SoloLiveSpec == SoloSpec /\ WF_vars(Tick) /\ WF_vars(CallStep(1))

\* the single call over a transport whose operations all succeed
ReliableStep(c) ==
  \/ SendOk(c)
  \/ ListReturn(c, TRUE)
  \/ GetReturn(c, TRUE)
  \/ ModifyReturn(c, TRUE)
  \/ TimerFire(c)

ReliableNext ==
  \/ Connect
  \/ AuthenticateOk
  \/ Disconnect
  \/ \E subject \in SoloSubjectCatalog, body \in ReplyBodyCatalog : Deliver(subject, body)
  \/ \E o \in Operations : Invoke(1, o)
  \/ ReliableStep(1)
  \/ BatchModifyReturn(1, TRUE)
  \/ Tick

ReliableSpec == Init /\ [][ReliableNext]_vars

\* concurrent calls over a transport whose operations all succeed, the
\* replies drawn from the larger catalog
ConcurrentNext ==
  \/ Connect
  \/ AuthenticateOk
  \/ \E subject \in SubjectCatalog, body \in ReplyBodyCatalog : Deliver(subject, body)
  \/ \E c \in Calls, o \in Operations : Invoke(c, o)
  \/ \E c \in Calls : ReliableStep(c)
  \/ \E c \in Calls : BatchModifyReturn(c, TRUE)
  \/ Tick

ConcurrentSpec == Init /\ [][ConcurrentNext]_vars

\* one poll cycle of a dispatched call over a reply with any body: up to
\* MaxPartLen tokens, then possibly the delimiter and up to MaxPartLen tokens
\* of quoted history
SeqsUpTo(S, n) == UNION {[1..k -> S] : k \in 0..n}

HeadTokens == {"{", "}", "x", "status:success"}
QuoteTokens == {"{", "}", "D", "status:error"}

DecodeBodies ==
  {h \o t : h \in SeqsUpTo(HeadTokens, MaxPartLen),
            t \in {<<>>} \cup {<<delimiter>> \o q : q \in SeqsUpTo(QuoteTokens, MaxPartLen)}}

DecodeInit ==
  /\ connected = TRUE
  /\ gmail = "gmail"
  /\ authInFlight = 0
  /\ connectOutcome = Resolved
  /\ inbox \in {<<[subject |-> ReplySubject(1), body |-> b]>> : b \in DecodeBodies}
  /\ unread = {1}
  /\ trashed = {}
  /\ minted = 1
  /\ pc = [c \in Calls |-> IF c = 1 THEN "listing" ELSE "idle"]
  /\ op = [c \in Calls |-> IF c = 1 THEN "listEvents" ELSE "none"]
  /\ requestId = [c \in Calls |-> IF c = 1 THEN uuidv4(1) ELSE NoRequestId]
  /\ result = [c \in Calls |-> NoResult]
  /\ processedMessageIds = [c \in Calls |-> {}]
  /\ messages = [c \in Calls |-> <<>>]
  /\ current = [c \in Calls |-> NoMsg]
  /\ pending = [c \in Calls |-> Null]
  /\ sinceStart = [c \in Calls |-> 0]
  /\ sinceStartTime = [c \in Calls |-> 0]
  /\ timer = [c \in Calls |-> 0]
  /\ cleanup = [c \in Calls |-> NoCleanup]
  /\ transportOps = [c \in Calls |-> IF c = 1 THEN {"send", "list"} ELSE {}]
  /\ fetches = [c \in Calls |-> [m \in {} |-> 0]]
  /\ skips = [c \in Calls |-> {}]
  /\ listed = [c \in Calls |-> <<>>]
  /\ markedRead = [c \in Calls |-> {}]
  /\ matchedFrom = [c \in Calls |-> NoMsg]
  /\ settled = [c \in Calls |-> 0]
  /\ timedOutAt = [c \in Calls |-> NotYet]
  /\ wasConnected = [c \in Calls |-> c = 1]
  /\ earlyReturns = 0
  /\ outbox = [c \in Calls |->
        IF c = 1 THEN buildRawEmail(Subject("GET", "list", uuidv4(1)),
                                    RequestBody(Payload("listEvents"), uuidv4(1)))
        ELSE NoEmail]
  /\ sentMeta = [c \in Calls |->
        IF c = 1 THEN returned(SentEmailMetadata(uuidv4(1), SentMessageId(1))) ELSE NoResult]
  /\ listQueries = [c \in Calls |-> IF c = 1 THEN 1 ELSE 0]
  /\ partial = NoPartial
  /\ config = resolveConfig(NoPartial)
  /\ watcherConfig = NoWatcher

DecodeNext ==
  \/ ListReturn(1, TRUE)
  \/ GetReturn(1, TRUE)
  \/ ModifyReturn(1, TRUE)

DecodeSpec == DecodeInit /\ [][DecodeNext]_vars

\* construction of a client from any configuration, and of the watcher of a
\* request of that client
ConfigInit ==
  /\ connected = FALSE
  /\ gmail = "null"
  /\ authInFlight = 0
  /\ connectOutcome = NoResult
  /\ inbox = <<>>
  /\ unread = {}
  /\ trashed = {}
  /\ minted = 0
  /\ pc = [c \in Calls |-> "idle"]
  /\ op = [c \in Calls |-> "none"]
  /\ requestId = [c \in Calls |-> NoRequestId]
  /\ result = [c \in Calls |-> NoResult]
  /\ processedMessageIds = [c \in Calls |-> {}]
  /\ messages = [c \in Calls |-> <<>>]
  /\ current = [c \in Calls |-> NoMsg]
  /\ pending = [c \in Calls |-> Null]
  /\ sinceStart = [c \in Calls |-> 0]
  /\ sinceStartTime = [c \in Calls |-> 0]
  /\ timer = [c \in Calls |-> 0]
  /\ cleanup = [c \in Calls |-> NoCleanup]
  /\ transportOps = [c \in Calls |-> {}]
  /\ fetches = [c \in Calls |-> [m \in {} |-> 0]]
  /\ skips = [c \in Calls |-> {}]
  /\ listed = [c \in Calls |-> <<>>]
  /\ markedRead = [c \in Calls |-> {}]
  /\ matchedFrom = [c \in Calls |-> NoMsg]
  /\ settled = [c \in Calls |-> 0]
  /\ timedOutAt = [c \in Calls |-> NotYet]
  /\ wasConnected = [c \in Calls |-> FALSE]
  /\ earlyReturns = 0
  /\ outbox = [c \in Calls |-> NoEmail]
  /\ sentMeta = [c \in Calls |-> NoResult]
  /\ listQueries = [c \in Calls |-> 0]
  /\ partial \in Partials
  /\ config = Unset
  /\ watcherConfig = NoWatcher

\* new CalendarEmailClient(partial): this.config = resolveConfig(config)
Construct ==
  /\ config = Unset
  /\ config' = resolveConfig(partial)
  /\ UNCHANGED <<partial, watcherConfig, clientVars, mailVars, callVars, watcherVars,
                 clockVars, cleanup, obsVars>>

\* sendRequest: new ResponseWatcher(..., config.pollIntervalMs, config.requestTimeoutMs, ...)
NewResponseWatcher ==
  /\ config.kind = "returned"
  /\ watcherConfig = NoWatcher
  /\ watcherConfig' =
       [kind |-> "watcher",
        pollIntervalMs |-> ParameterDefault(config.response.pollIntervalMs, WatcherPollIntervalMs),
        timeoutMs |-> ParameterDefault(config.response.requestTimeoutMs, WatcherTimeoutMs)]
  /\ UNCHANGED <<partial, config, clientVars, mailVars, callVars, watcherVars,
                 clockVars, cleanup, obsVars>>

ConfigNext ==
  \/ Construct
  \/ NewResponseWatcher

ConfigSpec == ConfigInit /\ [][ConfigNext]_vars

\* the connection lifecycle seen with a single call and an inbox that stays
\* empty; a connect() on the connected client is made visible
LifecycleStep(c) ==
  \/ SendOk(c)
  \/ SendFail(c)
  \/ \E ok \in BOOLEAN : ListReturn(c, ok)
  \/ TimerFire(c)

LifecycleNext ==
  \/ Connect
  \/ ConnectWhileConnected
  \/ AuthenticateOk
  \/ AuthenticateFail
  \/ Disconnect
  \/ \E o \in Operations : Invoke(1, o)
  \/ LifecycleStep(1)
  \/ Tick

LifecycleSpec == Init /\ [][LifecycleNext]_vars

\* the same lifecycle with connect() calls that may overlap
RaceNext ==
  \/ LifecycleNext
  \/ ConnectDuringConnect

RaceSpec == Init /\ [][RaceNext]_vars

TypeOK ==
  /\ connected \in BOOLEAN
  /\ gmail \in {"null", "gmail"}
  /\ authInFlight \in 0..MaxConnects
  /\ Len(inbox) <= MaxMsgs
  /\ unread \subseteq DOMAIN inbox
  /\ minted \in 0..NumCalls
  /\ \A c \in Calls :
       /\ pc[c] \in {"idle", "sending", "listing", "fetching", "marking", "sleeping",
                     "done", "stopped"}
       /\ sinceStart[c] \in 0..MaxDuration
       /\ sinceStartTime[c] \in 0..(TimeoutMs + 1)
       /\ timer[c] \in 0..PollIntervalMs
       /\ processedMessageIds[c] \subseteq DOMAIN inbox

(* =============================== claims =============================== *)
Dispatched(c) == requestId[c] # NoRequestId
Returned(c) == result[c].kind = "returned"
\* a member the response does not have reads as undefined
Status(c) ==
  IF "status" \in DOMAIN result[c].response THEN result[c].response.status ELSE "undefined"
ErrorCode(c) == result[c].response.data.code
HasErrorCode(c, code) ==
  /\ Returned(c)
  /\ Status(c) = "error"
  /\ "data" \in DOMAIN result[c].response
  /\ "code" \in DOMAIN result[c].response.data
  /\ ErrorCode(c) = code

\* C1: a reply whose tag contains the correlationId of call c1 and not that
\* of another call c2 is never marked read by c2 and never the message the
\* response of c2 is built from.
C1_CorrelationIsolation ==
  \A c1 \in Calls, c2 \in Calls, m \in DOMAIN inbox :
    ( /\ c1 # c2
      /\ Dispatched(c1)
      /\ Dispatched(c2)
      /\ includes(inbox[m].subject, requestId[c1])
      /\ ~includes(inbox[m].subject, requestId[c2]) )
    => /\ m \notin markedRead[c2]
       /\ matchedFrom[c2] # m
       /\ ~(pc[c2] = "marking" /\ current[c2] = m)

\* call c2 fetched a decodable reply tagged for c1 and went on to settle
C1_Witness ==
  \E c1 \in Calls, c2 \in Calls, m \in DOMAIN inbox :
    /\ c1 # c2
    /\ Dispatched(c1)
    /\ Dispatched(c2)
    /\ includes(inbox[m].subject, requestId[c1])
    /\ ~includes(inbox[m].subject, requestId[c2])
    /\ extractApiResponse(inbox[m].body, requestId[c2], m) # Null
    /\ m \in DOMAIN fetches[c2]
    /\ settled[c2] = 1

\* C2: a call ends in Timeout only when the time elapsed since its watcher
\* started exceeds timeoutMs.
C2_TimeoutNeverEarly ==
  \A c \in Calls :
    (HasErrorCode(c, "TIMEOUT") \/ timedOutAt[c] # NotYet)
      => /\ timedOutAt[c] # NotYet
         /\ timedOutAt[c] > TimeoutMs

\* a call has ended in Timeout
C2_Witness == \E c \in Calls : HasErrorCode(c, "TIMEOUT") /\ timedOutAt[c] > TimeoutMs

\* C3: when every transport call returns or fails and time advances, a wait
\* that has started eventually settles.
C3_WaitNeverHangs == \A c \in Calls : Watching(c) ~> (settled[c] >= 1)

\* a wait settled with Timeout although it never saw a candidate
C3_Witness ==
  \E c \in Calls :
    /\ settled[c] = 1
    /\ timedOutAt[c] # NotYet
    /\ processedMessageIds[c] = {}
    /\ Len(inbox) > 0

\* C4: a wait settles at most once, with a response or with Timeout and not
\* both, and a settled wait has no poll cycle running and no timer set.
C4_ExactlyOneOutcome ==
  \A c \in Calls :
    /\ settled[c] <= 1
    /\ settled[c] = 1 =>
         /\ pc[c] = "done"
         /\ Returned(c)
         /\ (matchedFrom[c] # NoMsg) # (timedOutAt[c] # NotYet)
    /\ (pc[c] = "done" /\ "list" \in transportOps[c]) => settled[c] = 1

\* a wait settled with a response
C4_Witness ==
  \E c \in Calls : settled[c] = 1 /\ matchedFrom[c] # NoMsg /\ Status(c) = "success"

\* C5: the processed-id set of a call only grows, holds exactly the ids that
\* call has fetched itself, and no id is fetched twice by one call: an id met
\* again is passed over.
C5_Examined ==
  \A c \in Calls :
    /\ processedMessageIds[c] = DOMAIN fetches[c]
    /\ skips[c] \subseteq processedMessageIds[c]
    /\ \A m \in DOMAIN fetches[c] : fetches[c][m] <= 1

C5_AtMostOnceExamination ==
  /\ []C5_Examined
  /\ [][\A c \in Calls : processedMessageIds[c] \subseteq processedMessageIds'[c]]_vars

\* one message was fetched by two calls, and one of them met it again in a
\* later poll cycle without fetching it again
C5_Witness ==
  \E c1 \in Calls, c2 \in Calls, m \in DOMAIN inbox :
    /\ c1 # c2
    /\ m \in DOMAIN fetches[c1]
    /\ m \in DOMAIN fetches[c2]
    /\ m \in skips[c1]

\* C6 as stated: every operation invoked while disconnected ends in
\* NotConnected without a transport operation.
C6_DisconnectedYieldsNotConnected ==
  \A c \in Calls :
    (pc[c] = "done" /\ ~wasConnected[c])
      => HasErrorCode(c, "NOT_CONNECTED") /\ transportOps[c] = {}

\* C6 amended: an operation invoked while disconnected performs no transport
\* operation; listEvents ends in NotConnected, the other four end skipped.
C6_DisconnectedNoTransport ==
  \A c \in Calls :
    (op[c] # "none" /\ ~wasConnected[c])
      => /\ pc[c] = "done"
         /\ transportOps[c] = {}
         /\ cleanup[c] = NoCleanup
         /\ ~Dispatched(c)
         /\ IF op[c] = "listEvents"
            THEN HasErrorCode(c, "NOT_CONNECTED")
            ELSE Returned(c) /\ Status(c) = "skipped"

\* listEvents was invoked after a disconnect, the handle still set
C6_Witness ==
  \E c \in Calls :
    /\ op[c] = "listEvents"
    /\ ~wasConnected[c]
    /\ gmail # "null"
    /\ pc[c] = "done"

\* C7 as stated: listEvents invoked while disconnected raises NotConnected
\* to its caller and returns no response.
C7_NotConnectedIsRaised ==
  \A c \in Calls :
    (pc[c] = "done" /\ op[c] = "listEvents" /\ ~wasConnected[c])
      => result[c].kind = "raised"

\* C7 amended: listEvents invoked while disconnected does not raise; it
\* returns a status:error response with code NOT_CONNECTED and the message.
C7_NotConnectedIsReturned ==
  \A c \in Calls :
    (pc[c] = "done" /\ op[c] = "listEvents" /\ ~wasConnected[c])
      => /\ HasErrorCode(c, "NOT_CONNECTED")
         /\ result[c].response.error = NotConnectedError.message
         /\ result[c].response.durationMs = 0

\* listEvents was invoked on a client that never connected
C7_Witness ==
  \E c \in Calls :
    /\ op[c] = "listEvents"
    /\ ~wasConnected[c]
    /\ gmail = "null"
    /\ pc[c] = "done"

SendFailed(c) == pc[c] = "done" /\ transportOps[c] = {"send"}

C9_FailuresAreReturned ==
  \A c \in Calls :
    /\ result[c].kind # "raised"
    /\ SendFailed(c) =>
         /\ HasErrorCode(c, "SEND_FAILED")
         /\ result[c].response.error = SendFailedError(requestId[c]).message
    /\ timedOutAt[c] # NotYet =>
         /\ HasErrorCode(c, "TIMEOUT")
         /\ result[c].response.error = TimeoutError(requestId[c]).message

\* the send of a call failed
C9_Witness == \E c \in Calls : SendFailed(c) /\ Returned(c)

\* C10: every returned value carries durationMs, the time elapsed since the
\* public call started, which is not negative.
C10_DurationMeasured ==
  \A c \in Calls :
    pc[c] = "done"
      => /\ Returned(c)
         /\ "durationMs" \in DOMAIN result[c].response
         /\ result[c].response.durationMs = sinceStart[c]
         /\ result[c].response.durationMs >= 0

\* a matched reply whose body carries a durationMs of its own was returned
\* after time had passed
C10_Witness ==
  \E c \in Calls :
    /\ pc[c] = "done"
    /\ matchedFrom[c] # NoMsg
    /\ "durationMs" \in DOMAIN extractApiResponse(inbox[matchedFrom[c]].body, requestId[c], 0)
    /\ result[c].response.durationMs > 0

\* C11: the status of every response a public operation returns is one of
\* success, error and skipped, whatever the body of the matched reply holds.
C11_StatusInEnum ==
  \A c \in Calls :
    Returned(c)
      => /\ "status" \in DOMAIN result[c].response
         /\ result[c].response.status \in {"success", "error", "skipped"}

\* the reply of the scenario: status success and events = [], followed by
\* quoted history
EventsReply ==
  <<"x", "{", "status:success", "events:[]", "durationMs:-5", "}", "D", "{", "}">>

MatchedEventsReply(c) ==
  /\ matchedFrom[c] # NoMsg
  /\ inbox[matchedFrom[c]].body = EventsReply
  /\ Returned(c)

\* C12 as stated: a matched reply {status: success, events: []} is returned
\* with that status and with the events under the data member.
C12_PayloadUnderData ==
  \A c \in Calls :
    MatchedEventsReply(c)
      => /\ Status(c) = "success"
         /\ "data" \in DOMAIN result[c].response
         /\ "events" \in DOMAIN result[c].response.data
         /\ result[c].response.data.events = "[]"

\* C12 amended: a matched reply {status: success, events: []} is returned
\* with that status and with events as a member of the response itself;
\* the response has no data member, the reply having none.
C12_PayloadAtTopLevel ==
  \A c \in Calls :
    MatchedEventsReply(c)
      => /\ Status(c) = "success"
         /\ "events" \in DOMAIN result[c].response
         /\ result[c].response.events = "[]"
         /\ "data" \notin DOMAIN result[c].response

\* the reply of the scenario was matched and returned
C12_Witness == \E c \in Calls : MatchedEventsReply(c) /\ pc[c] = "done"

\* C13: a call issues at most one mark-read, for the candidate it matched
\* and decoded; a candidate whose tag lacks the awaited correlationId is
\* never marked read, a wait that timed out marked nothing, and no message
\* loses its unread state except through the mark-read of a call.
C13_OnlyMatchMarkedRead ==
  /\ \A c \in Calls :
       /\ Cardinality(markedRead[c]) <= 1
       /\ \A m \in markedRead[c] :
            /\ includes(inbox[m].subject, requestId[c])
            /\ m \in processedMessageIds[c]
            /\ pc[c] = "marking" \/ matchedFrom[c] = m
       /\ timedOutAt[c] # NotYet => markedRead[c] = {}
       /\ matchedFrom[c] # NoMsg => markedRead[c] = {matchedFrom[c]}
  /\ \A m \in DOMAIN inbox :
       m \notin unread => \E c \in Calls : m \in markedRead[c]

\* a call examined a reply tagged for another request, left it unread, and
\* marked read the reply it matched
C13_Witness ==
  \E c \in Calls, m \in DOMAIN inbox :
    /\ m \in processedMessageIds[c]
    /\ ~includes(inbox[m].subject, requestId[c])
    /\ m \in unread
    /\ matchedFrom[c] # NoMsg
    /\ matchedFrom[c] \notin unread

\* a reply whose text holds no JSON object
GarbledReply == <<"x", "}", "{">>

GarbledSeen(c, g) ==
  /\ g \in processedMessageIds[c]
  /\ current[c] # g
  /\ includes(inbox[g].subject, requestId[c])
  /\ inbox[g].body = GarbledReply

\* C14: a candidate with the awaited tag whose body does not decode does not
\* end the wait and stays unread; when a later poll cycle then fetches a
\* second candidate with the same tag and a decodable body, the wait
\* resolves with that second candidate.
C14_GarbledLeftUnread ==
  \A c \in Calls, g \in DOMAIN inbox :
    GarbledSeen(c, g)
      => /\ g \in unread
         /\ g \notin markedRead[c]
         /\ matchedFrom[c] # g
         /\ settled[c] = 1 => (timedOutAt[c] # NotYet \/ matchedFrom[c] \notin {NoMsg, g})

\* the call holds a decodable candidate with its tag, delivered after the
\* garbled one it examined in an earlier cycle
HoldsSecond(c, at) ==
  \E g \in DOMAIN inbox :
    /\ GarbledSeen(c, g)
    /\ g < current[c]
    /\ g \in unread
    /\ pc[c] = at
    /\ includes(inbox[current[c]].subject, requestId[c])
    /\ inbox[current[c]].body = EventsReply

ResolvedWithSecond(c) ==
  \E g \in DOMAIN inbox :
    /\ GarbledSeen(c, g)
    /\ g \in unread
    /\ pc[c] = "done"
    /\ matchedFrom[c] \notin {NoMsg, g}
    /\ g < matchedFrom[c]
    /\ inbox[matchedFrom[c]].body = EventsReply
    /\ Status(c) = "success"

C14_GarbledThenDecodable ==
  /\ []C14_GarbledLeftUnread
  /\ [][\A c \in Calls :
         /\ HoldsSecond(c, "fetching")
              => (HoldsSecond(c, "fetching")' \/ HoldsSecond(c, "marking")')
         /\ HoldsSecond(c, "marking")
              => (HoldsSecond(c, "marking")' \/ ResolvedWithSecond(c)')]_vars

\* the garbled candidate was examined in one poll cycle and the decodable
\* candidate, delivered later, was matched in a later one
C14_Witness ==
  \E c \in Calls : ResolvedWithSecond(c)

\* bodies of the catalog that decode to an object
DecodableReplies == {EventsReply, <<"{", "requestId:evil", "messageId:1", "}">>}

Answers(c, m) ==
  /\ includes(inbox[m].subject, requestId[c])
  /\ inbox[m].body \in DecodableReplies

\* the candidate the call is marking read or has resolved with
Chosen(c) == IF pc[c] = "marking" THEN current[c] ELSE matchedFrom[c]

\* C15: the candidate a wait resolves with is the first one, in the order
\* the list query returned, whose tag holds the correlationId and whose body
\* decodes; the candidates after it in that list are not visited in that
\* cycle, and from the match on the call fetches and marks read nothing more.
C15_FirstInOrder ==
  \A c \in Calls :
    Chosen(c) # NoMsg
      => \E i \in 1..Len(listed[c]) :
           /\ listed[c][i] = Chosen(c)
           /\ Answers(c, Chosen(c))
           /\ \A j \in 1..(i - 1) : ~Answers(c, listed[c][j])
           /\ \A j \in (i + 1)..Len(listed[c]) : listed[c][j] \notin markedRead[c]
           /\ pc[c] = "marking" => messages[c] = SubSeq(listed[c], i + 1, Len(listed[c]))
           /\ pc[c] # "marking" => pc[c] = "done"

C15_TieBreak ==
  /\ []C15_FirstInOrder
  /\ [][\A c \in Calls :
         Chosen(c) # NoMsg
           => /\ fetches'[c] = fetches[c]
              /\ processedMessageIds'[c] = processedMessageIds[c]
              /\ markedRead'[c] = markedRead[c]
              /\ listed'[c] = listed[c]]_vars

\* two decodable replies with the awaited tag were listed in one cycle: the
\* call resolved with the first and never fetched the second, still unread
C15_Witness ==
  \E c \in Calls, i \in 1..MaxMsgs, j \in 1..MaxMsgs :
    /\ i < j
    /\ j <= Len(listed[c])
    /\ pc[c] = "done"
    /\ matchedFrom[c] = listed[c][i]
    /\ Answers(c, listed[c][j])
    /\ listed[c][j] \notin DOMAIN fetches[c]
    /\ listed[c][j] \in unread

\* C16: a poll cycle that fails (the list query throws) settles nothing: the
\* call sleeps pollIntervalMs and runs check() again when the timer is out;
\* a wait settles only by a match or by the deadline.
C16_EndsByMatchOrDeadline ==
  \A c \in Calls :
    /\ settled[c] >= 1 => (matchedFrom[c] # NoMsg \/ timedOutAt[c] # NotYet)
    /\ pc[c] \notin {"stopped"}
    /\ (Dispatched(c) /\ pc[c] = "done" /\ "list" \in transportOps[c]) => settled[c] >= 1

C16_PollErrorsSwallowed ==
  /\ []C16_EndsByMatchOrDeadline
  /\ [][\A c \in Calls :
         /\ (pc[c] = "listing" /\ pc'[c] # "listing")
              => /\ settled'[c] = settled[c]
                 /\ result'[c] = result[c]
                 /\ \/ pc'[c] = "fetching"
                    \/ pc'[c] = "sleeping" /\ timer'[c] = PollIntervalMs
         /\ (pc[c] = "sleeping" /\ pc'[c] # "sleeping")
              => /\ timer[c] = 0
                 /\ pc'[c] = "listing" \/ timedOutAt'[c] # NotYet]_vars

\* a list query failed (a candidate examined earlier and still unread was
\* not listed) and the call is asleep until the next cycle
C16_Witness ==
  \E c \in Calls, g \in DOMAIN inbox :
    /\ pc[c] = "sleeping"
    /\ timer[c] = PollIntervalMs
    /\ listed[c] = <<>>
    /\ g \in processedMessageIds[c]
    /\ g \in unread
    /\ g \notin trashed
    /\ settled[c] = 0

\* C17: nothing cancels a dispatched call: a disconnect() changes no part
\* of a call in flight, the call goes on polling while the client is
\* disconnected, and its wait settles only by a match or by the deadline.
C17_Unstoppable ==
  \A c \in Calls :
    /\ pc[c] # "stopped"
    /\ settled[c] >= 1 => (matchedFrom[c] # NoMsg) # (timedOutAt[c] # NotYet)
    /\ (Watching(c) /\ ~connected)
         => (ENABLED CallStep(c) \/ (pc[c] = "sleeping" /\ timer[c] > 0))

C18_DisconnectCancelsPending ==
  \A c \in Calls :
    ~connected => (pc[c] \notin {"sending", "sleeping"} /\ ~Watching(c))

\* the reply whose body has a messageId member of its own
OwnIdReply == <<"{", "requestId:evil", "messageId:1", "}">>

Completed(c) ==
  /\ Dispatched(c)
  /\ pc[c] = "done"
  /\ matchedFrom[c] # NoMsg \/ timedOutAt[c] # NotYet

C19_CleanupTriggered ==
  \A c \in Calls :
    /\ cleanup[c].state # "none" <=> matchedFrom[c] # NoMsg
    /\ timedOutAt[c] # NotYet => cleanup[c] = NoCleanup
    /\ cleanup[c].state # "none"
         => /\ Returned(c)
            /\ pc[c] = "done"
            /\ cleanup[c].ids[1] = SentMessageId(c)
            /\ Len(cleanup[c].ids) = 2
            /\ inbox[matchedFrom[c]].body = EventsReply
                 => cleanup[c].ids[2] = matchedFrom[c]
            /\ inbox[matchedFrom[c]].body = OwnIdReply
                 => cleanup[c].ids[2] = 1

C20_CleanupEnded ==
  \A c \in Calls :
    cleanup[c].state \in {"trashed", "failed"}
      => /\ Returned(c)
         /\ pc[c] = "done"
         /\ matchedFrom[c] # NoMsg
         /\ inbox[matchedFrom[c]].body = EventsReply
              => (Status(c) = "success" /\ result[c].response.events = "[]")

C20_CleanupNeverSurfaces ==
  /\ []C20_CleanupEnded
  /\ [][\A c \in Calls :
         (cleanup[c].state = "pending" /\ cleanup'[c].state # "pending")
           => /\ result'[c] = result[c]
              /\ pc'[c] = pc[c]
              /\ cleanup'[c].state = "failed" => trashed' = trashed]_vars

\* the archive of a call failed after the call had returned its reply
C20_Witness ==
  \E c \in Calls :
    /\ cleanup[c].state = "failed"
    /\ Returned(c)
    /\ Status(c) = "success"
    /\ trashed = {}

\* C21: a connect() made while the client is connected starts no
\* authentication, keeps the handle and the connected state, and changes
\* nothing else of the client or of its calls.
C21_ConnectIdempotent ==
  [][ /\ connected => authInFlight' <= authInFlight
      /\ earlyReturns' # earlyReturns
           => /\ connected /\ connected'
              /\ gmail' = gmail
              /\ gmail # "null"
              /\ UNCHANGED <<authInFlight, mailVars, callVars, watcherVars, clockVars, cleanup>>
    ]_vars

\* connect() was called on the connected client
C21_Witness == connected /\ earlyReturns > 0 /\ gmail = "gmail" /\ authInFlight = 0

\* C22: concurrent calls do not interfere: a decodable reply tagged for a
\* dispatched call stays unread and out of the trash until that call itself
\* has taken it, a call whose reply was listed to it does not time out, and
\* a call resolves only with a reply carrying its own correlationId.
C22_NoInterference ==
  \A c \in Calls, m \in DOMAIN inbox :
    (Dispatched(c) /\ Answers(c, m))
      => /\ (m \notin unread \/ m \in trashed) => Chosen(c) # NoMsg
         /\ timedOutAt[c] # NotYet => \A i \in DOMAIN listed[c] : listed[c][i] # m
         /\ matchedFrom[c] # NoMsg => includes(inbox[matchedFrom[c]].subject, requestId[c])

\* the part of a body before its first delimiter line
BeforeDelimiter(body) ==
  LET at == {i \in 1..Len(body) : body[i] = "D"}
  IN  IF at = {} THEN body
      ELSE SubSeq(body, 1, (CHOOSE i \in at : \A j \in at : i <= j) - 1)

\* the body of the scenario: {a: 1}, the delimiter, history holding {b: 2}
QuotedReply ==
  <<"{", "status:success", "}", "D", "{", "status:error", "}">>

\* C23: what the decode step yields for a body is what it yields for the
\* part of the body before the first delimiter; the body {a: 1}, delimiter,
\* {b: 2} decodes to {a: 1}.
C23_QuoteIgnored ==
  \A c \in Calls :
    /\ pc[c] = "marking"
         => /\ pending[c] = extractApiResponse(BeforeDelimiter(inbox[current[c]].body),
                                                requestId[c], current[c])
            /\ pending[c] # Null
            /\ inbox[current[c]].body = QuotedReply
                 => pending[c] = [status |-> "success", requestId |-> requestId[c],
                                  messageId |-> current[c]]
    /\ \A m \in processedMessageIds[c] :
         (pc[c] = "sleeping" /\ includes(inbox[m].subject, requestId[c]))
           => extractApiResponse(BeforeDelimiter(inbox[m].body), requestId[c], m) = Null
    /\ \A m \in processedMessageIds[c] :
         (inbox[m].body = QuotedReply /\ pc[c] # "fetching") => pc[c] \in {"marking", "done"}

\* the body of the scenario was decoded and the call is marking it read
C23_Witness ==
  \E c \in Calls :
    /\ pc[c] = "marking"
    /\ inbox[current[c]].body = QuotedReply
    /\ pending[c].status = "success"

\* the candidates of the running cycle the call has not examined yet
Unexamined(c) == SelectSeq(messages[c], LAMBDA m : m \notin processedMessageIds[c])

\* C24: a candidate that is given up (its fetch failed, its tag is another
\* one, or its body holds no JSON object) raises nothing and settles nothing:
\* the cycle goes on with the next unexamined candidate of the same listing,
\* and ends without a response only when none is left.
C24_FailsClosed ==
  [][\A c \in Calls :
       (/\ pc[c] = "fetching"
        /\ pc'[c] # "marking"
        /\ (pc'[c] # "fetching" \/ current'[c] # current[c]))
         => /\ result'[c] = result[c]
            /\ settled'[c] = settled[c]
            /\ pending'[c] = pending[c]
            /\ IF Unexamined(c) = <<>>
               THEN pc'[c] = "sleeping"
               ELSE /\ pc'[c] = "fetching"
                    /\ current'[c] = Head(Unexamined(c))
                    /\ current'[c] \in processedMessageIds'[c]]_vars

\* the first candidate of a listing was given up and the second one, of the
\* same cycle, is the reply the call completed with
C24_Witness ==
  \E c \in Calls :
    /\ Len(listed[c]) = 2
    /\ skips[c] = {}
    /\ listed[c][1] \in processedMessageIds[c]
    /\ matchedFrom[c] = listed[c][2]
    /\ Returned(c)

\* C26: when messages.send fails, sendApiEmail ends with a SEND_FAILED error
\* that carries the requestId minted for that attempt, the one in the subject
\* of the message it tried to send, and returns no metadata.
C26_SendFailedCarriesId ==
  \A c \in Calls :
    SendFailed(c)
      => /\ sentMeta[c].kind = "raised"
         /\ sentMeta[c].error.code = "SEND_FAILED"
         /\ sentMeta[c].error.requestId = requestId[c]
         /\ sentMeta[c].error.requestId # NoRequestId
         /\ outbox[c].subject =
              <<"#calendarapi", "GET", "list", "[">> \o sentMeta[c].error.requestId \o <<"]">>

\* the send of the second of two calls failed after the first was sent
C26_Witness ==
  /\ sentMeta[1].kind = "returned"
  /\ SendFailed(NumCalls)
  /\ sentMeta[NumCalls].kind = "raised"

\* the transport operations a call issues after its send
AfterSend == {"list", "get", "modify", "batchModify"}

\* C27: a call issues a list, get, modify or batchModify only once its send
\* has returned its metadata; while the send is awaited, and for good when the
\* send failed, the send is the only transport operation of the call.
C27_SendBeforePolling ==
  \A c \in Calls :
    /\ transportOps[c] \cap AfterSend # {} =>
         /\ sentMeta[c].kind = "returned"
         /\ "send" \in transportOps[c]
    /\ pc[c] = "sending" => transportOps[c] = {"send"} /\ sentMeta[c] = NoResult
    /\ sentMeta[c].kind = "raised" =>
         /\ transportOps[c] = {"send"}
         /\ pc[c] = "done"
         /\ listed[c] = <<>>
         /\ cleanup[c] = NoCleanup

\* one call polled and fetched a candidate after its send returned, and the
\* send of the other call failed
C27_Witness ==
  \E c \in Calls, d \in Calls :
    /\ sentMeta[c].kind = "returned"
    /\ {"list", "get"} \subseteq transportOps[c]
    /\ sentMeta[d].kind = "raised"
    /\ Returned(d)

\* the tag the operation o is documented to send for the request rid
ExpectedTag(o, rid) ==
  <<"#calendarapi">> \o
  (CASE o = "listEvents" -> <<"GET", "list">>
     [] o = "createEvent" -> <<"POST", "create">>
     [] o = "updateEvent" -> <<"PATCH", "update">>
     [] o = "deleteEvent" -> <<"DELETE", "event">>
     [] o = "healthCheck" -> <<"GET", "health">>) \o
  <<"[">> \o rid \o <<"]">>

C29_UniqueIds ==
  /\ [](\A c \in Calls, d \in Calls :
          (c # d /\ Dispatched(c) /\ Dispatched(d))
            => /\ requestId[c] # requestId[d]
               /\ outbox[c].subject # outbox[d].subject)
  /\ [][\A c \in Calls :
          requestId'[c] # requestId[c]
            => /\ requestId[c] = NoRequestId
               /\ \A d \in Calls : requestId'[c] # requestId[d]]_vars

\* a call was dispatched after the send of an earlier call had failed
C29_Witness ==
  /\ SendFailed(1)
  /\ sentMeta[1].kind = "raised"
  /\ Dispatched(NumCalls)
  /\ requestId[NumCalls] # requestId[1]

\* C30: a configuration with pollIntervalMs below 500 or requestTimeoutMs
\* below 5000 is rejected, and the watcher of every constructed client sleeps
\* at least 500 ms between polls and has a deadline of at least 5000 ms.
C30_MinimumsEnforced ==
  /\ config.kind = "returned" =>
       /\ ~(partial.pollIntervalMs.t = "number" /\ partial.pollIntervalMs.v < 500)
       /\ ~(partial.requestTimeoutMs.t = "number" /\ partial.requestTimeoutMs.v < 5000)
  /\ watcherConfig # NoWatcher =>
       /\ setTimeoutDelay(watcherConfig.pollIntervalMs) >= 500
       /\ watcherConfig.timeoutMs.t = "number"
       /\ watcherConfig.timeoutMs.v >= 5000

\* C31: the response of a call completed by a match has the requestId the
\* call was waiting for and the id of the matched message as its messageId,
\* whatever members the body of the reply has.
C31_IdsFromTheMatch ==
  \A c \in Calls :
    (Returned(c) /\ matchedFrom[c] # NoMsg)
      => /\ result[c].response.requestId = requestId[c]
         /\ result[c].response.messageId = matchedFrom[c]

\* C32: the ids a call hands to batchModify are the id of its own outbound
\* message and the id of the message it matched, and no other.
C32_CleanupOwnMessagesOnly ==
  \A c \in Calls :
    cleanup[c].state # "none"
      => {cleanup[c].ids[i] : i \in DOMAIN cleanup[c].ids}
           \subseteq {SentMessageId(c), matchedFrom[c]}

\* C33: a wait does not end in a Timeout while a reply tagged with its
\* requestId, with a body that decodes, is unread, out of the trash and among
\* the candidates its latest list query returned: failed list queries and
\* failed fetches before that only delay the match.
C33_ListedReplyResolves ==
  \A c \in Calls, m \in DOMAIN inbox :
    (/\ timedOutAt[c] # NotYet
     /\ Answers(c, m)
     /\ m \in unread
     /\ m \notin trashed)
      => \A i \in DOMAIN listed[c] : listed[c][i] # m

\* C34: a list query is issued only while the time elapsed since the start
\* of the wait is within timeoutMs, and a wait issues no more than
\* floor(timeoutMs / pollIntervalMs) + 1 of them.
C34_PollsWithinDeadline ==
  /\ [](\A c \in Calls : listQueries[c] <= (TimeoutMs \div PollIntervalMs) + 1)
  /\ [][\A c \in Calls :
          listQueries'[c] > listQueries[c]
            => /\ pc'[c] = "listing"
               /\ sinceStartTime'[c] <= TimeoutMs
               /\ listQueries'[c] = listQueries[c] + 1]_vars

\* a wait issued as many list queries as the deadline leaves room for
C34_Witness ==
  \E c \in Calls :
    /\ pc[c] = "listing"
    /\ listQueries[c] = (TimeoutMs \div PollIntervalMs) + 1
    /\ sinceStartTime[c] = TimeoutMs

\* C35: a poll cycle of a call starts only when no cycle of that call is in
\* progress (the send has just returned, or the call sleeps with the timer
\* run down and nothing of the previous cycle left), the k-th cycle starts no
\* sooner than (k - 1) * pollIntervalMs after the start of the wait, and the set
\* of processed ids grows only inside a cycle, one id at a time.
C35_CyclesDoNotOverlap ==
  /\ [][\A c \in Calls :
          listQueries'[c] > listQueries[c]
            => /\ pc[c] \in {"sending", "sleeping"}
               /\ pc[c] = "sleeping" => timer[c] = 0
               /\ messages[c] = <<>>
               /\ current[c] = NoMsg
               /\ pending[c] = Null
               /\ sinceStartTime'[c] >= (listQueries'[c] - 1) * PollIntervalMs]_vars
  /\ [][\A c \in Calls :
          processedMessageIds'[c] # processedMessageIds[c]
            => /\ pc[c] \in {"listing", "fetching"}
               /\ pc'[c] = "fetching"
               /\ processedMessageIds'[c] = processedMessageIds[c] \cup {current'[c]}]_vars
  /\ [](\A c \in Calls :
          pc[c] = "sleeping" => messages[c] = <<>> /\ current[c] = NoMsg /\ pending[c] = Null)

\* a second cycle runs after a first one that examined a candidate
C35_Witness ==
  \E c \in Calls :
    /\ pc[c] = "fetching"
    /\ listQueries[c] = 2
    /\ Cardinality(processedMessageIds[c]) = 2
    /\ sinceStartTime[c] >= PollIntervalMs

\* C36: when marking the matched message read fails, so that the message
\* keeps its UNREAD label, the call still returns the response decoded from
\* that message, with durationMs as the only member added, and no Timeout.
C36_MarkReadFailureIgnored ==
  \A c \in Calls :
    (matchedFrom[c] # NoMsg /\ matchedFrom[c] \in unread)
      => LET m == matchedFrom[c]
             decoded == extractApiResponse(inbox[m].body, requestId[c], m)
         IN  /\ Returned(c)
             /\ timedOutAt[c] = NotYet
             /\ settled[c] = 1
             /\ decoded # Null
             /\ DOMAIN result[c].response = DOMAIN decoded \cup {"durationMs"}
             /\ \A k \in DOMAIN decoded \ {"durationMs"} : result[c].response[k] = decoded[k]

\* the matched reply is still unread after the call returned its events
C36_Witness ==
  \E c \in Calls :
    /\ MatchedEventsReply(c)
    /\ matchedFrom[c] \in unread
    /\ Status(c) = "success"

\* C37: whenever connected is true the handle is set; a handle, once set,
\* stays set; a call that has passed the connection check and is sending has
\* a handle.
C37_ConnectedHasHandle ==
  /\ [](connected => gmail # "null")
  /\ [][gmail # "null" => gmail' # "null"]_vars
  /\ [](\A c \in Calls : (pc[c] = "sending" \/ Watching(c)) => gmail # "null")

\* a call is sending on the connected client
C37_Witness ==
  \E c \in Calls : pc[c] = "sending" /\ connected /\ gmail = "gmail" /\ wasConnected[c]

\* C38: while one connect() is authenticating no second authentication is
\* started: at most one auth.authenticate() call is awaited at any time.
C38_OneAuthenticationAtATime == authInFlight <= 1

\* a connect() call settles in this step with the error of authenticate()
ConnectRejects ==
  /\ authInFlight' < authInFlight
  /\ connectOutcome'.kind = "raised"

\* the operation of call c is invoked in this step, on a client that is
\* disconnected and whose latest connect() was rejected
InvokedAfterAuthFailure(c) ==
  /\ op[c] = "none"
  /\ op'[c] # "none"
  /\ ~connected
  /\ connectOutcome.kind = "raised"

\* C39 as stated: a failed authentication is raised by connect() as
\* AUTH_FAILED and leaves the client disconnected without a handle, and every
\* data operation invoked after it yields NOT_CONNECTED and no transport call.
C39_AuthFailureThenNotConnected ==
  [][/\ ConnectRejects
        => /\ connectOutcome'.error.code = "AUTH_FAILED"
           /\ ~connected'
           /\ gmail' = "null"
     /\ \A c \in Calls :
          InvokedAfterAuthFailure(c)
            => /\ transportOps'[c] = {}
               /\ result'[c].kind = "returned"
               /\ result'[c].response.status = "error"
               /\ result'[c].response.data.code = "NOT_CONNECTED"]_vars

\* C39: a failed authentication is raised by connect() as AUTH_FAILED and
\* leaves connected and the handle as they were; an operation invoked after
\* it on the disconnected client is done at once with no transport operation,
\* listEvents with the NOT_CONNECTED error response and the other four with
\* the skipped response.
C39_AuthFailureLeavesDisconnected ==
  [][/\ ConnectRejects
        => /\ connectOutcome'.error.code = "AUTH_FAILED"
           /\ connected' = connected
           /\ gmail' = gmail
     /\ \A c \in Calls :
          InvokedAfterAuthFailure(c)
            => /\ transportOps'[c] = {}
               /\ pc'[c] = "done"
               /\ requestId'[c] = NoRequestId
               /\ result'[c].kind = "returned"
               /\ IF op'[c] = "listEvents"
                  THEN /\ result'[c].response.status = "error"
                       /\ result'[c].response.data.code = "NOT_CONNECTED"
                  ELSE result'[c].response.status = "skipped"]_vars

\* the first connect() of a client was rejected and listEvents, invoked
\* after it, came back with NOT_CONNECTED
C39_Witness ==
  \E c \in Calls :
    /\ connectOutcome = raised(AuthFailedError)
    /\ ~connected
    /\ gmail = "null"
    /\ op[c] = "listEvents"
    /\ HasErrorCode(c, "NOT_CONNECTED")
    /\ transportOps[c] = {}

====
